---- MODULE Spec2Model ----
(***************************************************************************)
(* Unicode case conversion: convert_case() and its helpers in              *)
(* src/common/unicode_case.c, with the default word boundary iterator      *)
(* initcap_wbnext() of src/backend/utils/adt/pg_locale_builtin.c.          *)
(*                                                                         *)
(* Strings are sequences of bytes (0..255); C offsets are 0-based, so the  *)
(* byte at C offset i of a sequence s is s[i + 1].                         *)
(***************************************************************************)
EXTENDS Integers, Sequences, FiniteSets, TLC

\* ------------------------------------------------------------------ bounds
\* longest source string, in codepoints, of the general specification
MaxLen == 3
\* longest source string of the Final_Sigma specification
MaxLenSigma == 4
\* longest source string of the ASCII titlecase specification
MaxLenAscii == 4
\* largest dstsize a first call is given
MaxDst == 4

\* --------------------------------------------------------------- C types
\* the largest size_t of the model; (size_t) -1 is this value
SIZE_MAX == (2 ^ 30) - 1

\* conversion of a signed argument to size_t
ToSizeT(n) == IF n < 0 THEN SIZE_MAX + 1 + n ELSE n

CaseLower == 1
CaseTitle == 2
CaseUpper == 3

MAX_CASE_EXPANSION == 3

PG_U_FINAL_SIGMA == 1

\* ------------------------------------------------------------------ UTF-8
unicode_utf8len(c) ==
    IF c < 128 THEN 1
    ELSE IF c < 2048 THEN 2
    ELSE IF c < 65536 THEN 3
    ELSE 4

unicode_to_utf8(c) ==
    IF c < 128 THEN <<c>>
    ELSE IF c < 2048 THEN <<192 + (c \div 64), 128 + (c % 64)>>
    ELSE IF c < 65536 THEN
        <<224 + (c \div 4096), 128 + ((c \div 64) % 64), 128 + (c % 64)>>
    ELSE
        <<240 + (c \div 262144), 128 + ((c \div 4096) % 64),
          128 + ((c \div 64) % 64), 128 + (c % 64)>>

\* number of bytes of the sequence the lead byte b starts
utf8_seqlen(b) ==
    IF b < 128 THEN 1
    ELSE IF b < 224 THEN 2
    ELSE IF b < 240 THEN 3
    ELSE 4

\* decode the codepoint that starts at C offset i of str
utf8_to_unicode(str, i) ==
    LET b == str[i + 1] IN
    IF b < 128 THEN b
    ELSE IF b < 224 THEN
        ((b % 32) * 64) + (str[i + 2] % 64)
    ELSE IF b < 240 THEN
        ((b % 16) * 4096) + ((str[i + 2] % 64) * 64) + (str[i + 3] % 64)
    ELSE
        ((b % 8) * 262144) + ((str[i + 2] % 64) * 4096)
            + ((str[i + 3] % 64) * 64) + (str[i + 4] % 64)

\* ------------------------------------------------------------ case tables
\* special_case table: one record per codepoint with a special mapping;
\* map[kind] is zero-terminated when shorter than MAX_CASE_EXPANSION
special_case ==
    << [codepoint |-> 223, conditions |-> 0,
        map |-> << <<223, 0, 0>>, <<83, 115, 0>>, <<83, 83, 0>> >>],
       [codepoint |-> 304, conditions |-> 0,
        map |-> << <<105, 775, 0>>, <<304, 0, 0>>, <<304, 0, 0>> >>],
       [codepoint |-> 912, conditions |-> 0,
        map |-> << <<912, 0, 0>>, <<921, 776, 769>>, <<921, 776, 769>> >>],
       [codepoint |-> 931, conditions |-> PG_U_FINAL_SIGMA,
        map |-> << <<962, 0, 0>>, <<931, 0, 0>>, <<931, 0, 0>> >>] >>

\* the entry of an ASCII codepoint: A-Z lower to a-z, a-z title/upper to A-Z
ascii_entry(c) ==
    [codepoint |-> c,
     simplemap |-> << IF c \in 65..90 THEN c + 32 ELSE c,
                      IF c \in 97..122 THEN c - 32 ELSE c,
                      IF c \in 97..122 THEN c - 32 ELSE c >>,
     special_case |-> 0]

\* the entries above U+007F, ascending by codepoint; special_case is an
\* index into special_case, 0 for NULL
nonascii_entries ==
    << [codepoint |-> 181, simplemap |-> <<181, 924, 924>>, special_case |-> 0],
       [codepoint |-> 223, simplemap |-> <<223, 223, 223>>, special_case |-> 1],
       [codepoint |-> 304, simplemap |-> <<105, 304, 304>>, special_case |-> 2],
       [codepoint |-> 452, simplemap |-> <<454, 453, 452>>, special_case |-> 0],
       [codepoint |-> 453, simplemap |-> <<454, 453, 452>>, special_case |-> 0],
       [codepoint |-> 454, simplemap |-> <<454, 453, 452>>, special_case |-> 0],
       [codepoint |-> 912, simplemap |-> <<912, 912, 912>>, special_case |-> 3],
       [codepoint |-> 924, simplemap |-> <<956, 924, 924>>, special_case |-> 0],
       [codepoint |-> 931, simplemap |-> <<963, 931, 931>>, special_case |-> 4],
       [codepoint |-> 956, simplemap |-> <<956, 924, 924>>, special_case |-> 0],
       [codepoint |-> 962, simplemap |-> <<962, 931, 931>>, special_case |-> 0],
       [codepoint |-> 963, simplemap |-> <<963, 931, 931>>, special_case |-> 0] >>

\* case_map[k] is the C entry case_map[k - 1]
case_map == [k \in 1..128 |-> ascii_entry(k - 1)] \o nonascii_entries

\* ---------------------------------------------------- character properties
pg_u_prop_cased(c) ==
    \/ c \in 65..90
    \/ c \in 97..122
    \/ c \in {181, 223, 304, 452, 453, 454, 912, 924, 931, 956, 962, 963}

pg_u_prop_case_ignorable(c) ==
    c \in {39, 46, 58, 94, 96, 168, 173, 175, 180, 183, 184, 775, 776, 769}

pg_u_isalpha(c) ==
    \/ c \in 65..90
    \/ c \in 97..122
    \/ c \in {181, 223, 304, 452, 453, 454, 912, 924, 931, 956, 962, 963}

pg_u_isdigit(c, posix) == c \in 48..57

pg_u_isalnum(c, posix) == pg_u_isalpha(c) \/ pg_u_isdigit(c, posix)

\* ------------------------------------------------------------ find_case_map
\* the binary search with the loop condition max > min
RECURSIVE case_map_search_strict(_, _, _)
case_map_search_strict(ucs, min, max) ==
    IF max > min THEN
        LET mid == (min + max) \div 2 IN
        IF ucs > case_map[mid + 1].codepoint THEN
            case_map_search_strict(ucs, mid + 1, max)
        ELSE IF ucs < case_map[mid + 1].codepoint THEN
            case_map_search_strict(ucs, min, mid - 1)
        ELSE mid
    ELSE -1

\* the binary search returning the entry it stopped at when none matches
RECURSIVE case_map_search_nearest(_, _, _)
case_map_search_nearest(ucs, min, max) ==
    IF max >= min THEN
        LET mid == (min + max) \div 2 IN
        IF ucs > case_map[mid + 1].codepoint THEN
            case_map_search_nearest(ucs, mid + 1, max)
        ELSE IF ucs < case_map[mid + 1].codepoint THEN
            case_map_search_nearest(ucs, min, mid - 1)
        ELSE mid
    ELSE IF min <= Len(case_map) - 1 THEN min
    ELSE max

\* the binary search of find_case_map over C indexes min..max; the result is
\* a C index into case_map, or -1 for NULL
RECURSIVE case_map_search(_, _, _)
case_map_search(ucs, min, max) ==
    IF max >= min THEN
        LET mid == (min + max) \div 2 IN
        IF ucs > case_map[mid + 1].codepoint THEN
            case_map_search(ucs, mid + 1, max)
        ELSE IF ucs < case_map[mid + 1].codepoint THEN
            case_map_search(ucs, min, mid - 1)
        ELSE mid
    ELSE -1

\* find_case_map with the fast path indexing one entry too far
find_case_map_off_by_one(ucs) ==
    IF ucs < 128 THEN ucs + 1
    ELSE case_map_search(ucs, 0, Len(case_map) - 1)

find_case_map(ucs) ==
    IF ucs < 128 THEN ucs
    ELSE case_map_search(ucs, 0, Len(case_map) - 1)

\* the number of iterations the search loop of find_case_map makes
RECURSIVE case_map_search_steps(_, _, _)
case_map_search_steps(ucs, min, max) ==
    IF max >= min THEN
        LET mid == (min + max) \div 2 IN
        IF ucs > case_map[mid + 1].codepoint THEN
            1 + case_map_search_steps(ucs, mid + 1, max)
        ELSE IF ucs < case_map[mid + 1].codepoint THEN
            1 + case_map_search_steps(ucs, min, mid - 1)
        ELSE 1
    ELSE 0

find_case_map_steps(ucs) ==
    IF ucs < 128 THEN 0
    ELSE case_map_search_steps(ucs, 0, Len(case_map) - 1)

\* ------------------------------------------------- simple mapping functions
unicode_lowercase_simple(c) ==
    LET map == find_case_map(c)
    IN  IF map # -1 THEN case_map[map + 1].simplemap[CaseLower] ELSE c

unicode_titlecase_simple(c) ==
    LET map == find_case_map(c)
    IN  IF map # -1 THEN case_map[map + 1].simplemap[CaseTitle] ELSE c

unicode_uppercase_simple(c) ==
    LET map == find_case_map(c)
    IN  IF map # -1 THEN case_map[map + 1].simplemap[CaseUpper] ELSE c

\* -------------------------------------------------------- check_final_sigma
Max(a, b) == IF a >= b THEN a ELSE b

\* is the byte the first byte of a codepoint: (b & 0x80) == 0 ||
\* (b & 0xC0) == 0xC0; every other byte has (b & 0xC0) == 0x80
is_lead(b) == b < 128 \/ b >= 192

\* the backward loop of check_final_sigma from C index i: "break" when a
\* Cased codepoint stops it, "false" when it returns false, "end" when i
\* runs below 0
RECURSIVE final_sigma_back(_, _)
final_sigma_back(str, i) ==
    IF i >= 0 THEN
        IF is_lead(str[i + 1]) THEN
            LET curr == utf8_to_unicode(str, i) IN
            IF pg_u_prop_case_ignorable(curr) THEN final_sigma_back(str, i - 1)
            ELSE IF pg_u_prop_cased(curr) THEN "break"
            ELSE "false"
        ELSE final_sigma_back(str, i - 1)
    ELSE "end"

\* final_sigma_fwd, stopping at a NUL only
RECURSIVE final_sigma_fwd_no_len(_, _, _, _)
final_sigma_fwd_no_len(str, len, i, hi) ==
    IF str[i + 1] # 0 THEN
        IF is_lead(str[i + 1]) THEN
            LET curr == utf8_to_unicode(str, i)
                top  == Max(hi, i + utf8_seqlen(str[i + 1]) - 1)
            IN  IF pg_u_prop_case_ignorable(curr) THEN
                    final_sigma_fwd_no_len(str, len, i + 1, top)
                ELSE IF pg_u_prop_cased(curr) THEN
                    [res |-> FALSE, hi |-> top]
                ELSE [res |-> TRUE, hi |-> top]
        ELSE final_sigma_fwd_no_len(str, len, i + 1, Max(hi, i))
    ELSE [res |-> TRUE, hi |-> Max(hi, i)]

\* the forward loop of check_final_sigma from C index i; hi is the highest
\* C index read so far
RECURSIVE final_sigma_fwd(_, _, _, _)
final_sigma_fwd(str, len, i, hi) ==
    IF i < len THEN
        IF str[i + 1] # 0 THEN
            IF is_lead(str[i + 1]) THEN
                LET curr == utf8_to_unicode(str, i)
                    top  == Max(hi, i + utf8_seqlen(str[i + 1]) - 1)
                IN  IF pg_u_prop_case_ignorable(curr) THEN
                        final_sigma_fwd(str, len, i + 1, top)
                    ELSE IF pg_u_prop_cased(curr) THEN
                        [res |-> FALSE, hi |-> top]
                    ELSE [res |-> TRUE, hi |-> top]
            ELSE final_sigma_fwd(str, len, i + 1, Max(hi, i))
        ELSE [res |-> TRUE, hi |-> Max(hi, i)]
    ELSE [res |-> TRUE, hi |-> hi]

\* res: the value returned; hi: the highest C index of str that was read
check_final_sigma(str, len, offset) ==
    IF offset = 0 THEN [res |-> FALSE, hi |-> -1]
    ELSE IF final_sigma_back(str, offset - 1) = "false" THEN
        [res |-> FALSE, hi |-> offset - 1]
    ELSE IF offset = len THEN [res |-> TRUE, hi |-> offset - 1]
    ELSE final_sigma_fwd(str, len, offset + 1, offset - 1)

\* check_special_conditions without the Final_Sigma branch: every condition
\* other than none is unsupported
check_special_conditions_unsupported(conditions, str, len, offset) ==
    IF conditions = 0 THEN [res |-> TRUE, hi |-> -1]
    ELSE [res |-> FALSE, hi |-> -1]

check_special_conditions(conditions, str, len, offset) ==
    IF conditions = 0 THEN [res |-> TRUE, hi |-> -1]
    ELSE IF conditions = PG_U_FINAL_SIGMA THEN
        check_final_sigma(str, len, offset)
    ELSE [res |-> FALSE, hi |-> -1]

\* ----------------------------------------------------------- initcap_wbnext
\* initcap_wbnext, leaving prev_alnum as it was
RECURSIVE initcap_wbnext_stale_prev(_, _)
initcap_wbnext_stale_prev(str, w) ==
    IF w.offset < w.len /\ str[w.offset + 1] # 0 THEN
        LET u == utf8_to_unicode(str, w.offset)
            curr_alnum == pg_u_isalnum(u, w.posix)
        IN  IF ~w.init \/ curr_alnum # w.prev_alnum THEN
                [ret |-> w.offset,
                 st  |-> [w EXCEPT !.init = TRUE,
                                   !.offset = w.offset + unicode_utf8len(u)]]
            ELSE initcap_wbnext_stale_prev(str,
                     [w EXCEPT !.offset = w.offset + unicode_utf8len(u)])
    ELSE [ret |-> w.len, st |-> w]

\* one call of the boundary iterator on state w bound to str: ret is the
\* offset returned, st the state left behind
\* initcap_wbnext without the init test: the first codepoint is a boundary
\* only when it is alphanumeric
RECURSIVE initcap_wbnext_no_init(_, _)
initcap_wbnext_no_init(str, w) ==
    IF w.offset < w.len /\ str[w.offset + 1] # 0 THEN
        LET u == utf8_to_unicode(str, w.offset)
            curr_alnum == pg_u_isalnum(u, w.posix)
        IN  IF curr_alnum # w.prev_alnum THEN
                [ret |-> w.offset,
                 st  |-> [w EXCEPT !.init = TRUE,
                                   !.offset = w.offset + unicode_utf8len(u),
                                   !.prev_alnum = curr_alnum]]
            ELSE initcap_wbnext_no_init(str,
                     [w EXCEPT !.offset = w.offset + unicode_utf8len(u)])
    ELSE [ret |-> w.len, st |-> w]

RECURSIVE initcap_wbnext(_, _)
initcap_wbnext(str, w) ==
    IF w.offset < w.len /\ str[w.offset + 1] # 0 THEN
        LET u == utf8_to_unicode(str, w.offset)
            curr_alnum == pg_u_isalnum(u, w.posix)
        IN  IF ~w.init \/ curr_alnum # w.prev_alnum THEN
                [ret |-> w.offset,
                 st  |-> [w EXCEPT !.init = TRUE,
                                   !.offset = w.offset + unicode_utf8len(u),
                                   !.prev_alnum = curr_alnum]]
            ELSE initcap_wbnext(str,
                     [w EXCEPT !.offset = w.offset + unicode_utf8len(u)])
    ELSE [ret |-> w.len, st |-> w]

\* the state strtitle_builtin builds for a call with length argument srclen
WordBoundaryState(len, casemap_full) ==
    [len |-> len, offset |-> 0, posix |-> ~casemap_full,
     init |-> FALSE, prev_alnum |-> FALSE]

\* a boundary callback other than initcap_wbnext: its state lists the
\* offsets it yields, the last of them for every later call
protocol_wbnext(w) ==
    [ret |-> w.offsets[IF w.calls < Len(w.offsets)
                       THEN w.calls + 1 ELSE Len(w.offsets)],
     st |-> [w EXCEPT !.calls = @ + 1]]

\* wbnext(wbstate): the call of the callback the caller passed
wbnext(str, w) ==
    IF "offsets" \in DOMAIN w THEN protocol_wbnext(w)
    ELSE initcap_wbnext(str, w)

\* -------------------------------------------------------------------- state
VARIABLES
    text,            \* the caller's string, as codepoints
    src,             \* the bytes at src: the string, then the byte after it
    srclen,          \* the srclen parameter, a size_t
    str_casekind, real_titlecase, adjust_to_cased, full,
    dstsize,         \* the dstsize parameter
    dst,             \* the bytes written through dst: C index -> byte
    wbstate,         \* the WordBoundaryState of the call (Title only)
    chr_casekind, srcoff, result_len, boundary, adjusting,
    pc,              \* "call", "loop", "done", or "abort" (failed Assert)
    ret,             \* the value returned, -1 until the call returns
    maxread,         \* highest C index of src read by convert_case, -1 if none
    log,             \* one record per loop iteration
    prev,            \* the results of the caller's previous call, <<>> if none
    pulled,          \* the offsets wbnext has returned in this call
    code,            \* argument of the simple mapping functions, -1 if none
    mapped,          \* what they returned for code
    other,           \* the suspended call of a second thread, <<>> if none
    interleaved,     \* a switch has happened with both calls in their loops
    coll,            \* the state of a strncoll_builtin_ci call, <<>> if none
    icu              \* the state of an icu_multilib_search call, <<>> if none

vars == <<text, src, srclen, str_casekind, real_titlecase, adjust_to_cased,
          full, dstsize, dst, wbstate, chr_casekind, srcoff, result_len,
          boundary, adjusting, pc, ret, maxread, log, prev, pulled, code,
          mapped, other, interleaved, coll, icu>>

\* what no step of convert_case touches
rest == <<code, mapped, other, interleaved, coll, icu>>

params == <<text, str_casekind, real_titlecase, adjust_to_cased, full>>

locals == <<chr_casekind, srcoff, result_len, boundary, adjusting>>

\* ------------------------------------------------------------- the caller
RECURSIVE Encode(_)
Encode(cps) ==
    IF cps = <<>> THEN <<>>
    ELSE unicode_to_utf8(Head(cps)) \o Encode(Tail(cps))

Texts(alphabet, n) == UNION {[1..k -> alphabet] : k \in 0..n}

\* the flag combinations the Assert at the top of convert_case admits
Flags ==
    {<<k, FALSE, FALSE, f>> : k \in {CaseLower, CaseUpper}, f \in BOOLEAN}
    \cup {<<CaseTitle, r, a, f>> : r \in BOOLEAN, a \in BOOLEAN, f \in BOOLEAN}

\* a call on string t: len is the srclen argument as the caller wrote it
\* (-1: NUL-terminated), after the byte that follows the string in memory
EnterWith(t, len, after, flags, size, state) ==
    /\ text = t
    /\ src = Encode(t) \o <<after>>
    /\ srclen = ToSizeT(len)
    /\ str_casekind = flags[1]
    /\ real_titlecase = flags[2]
    /\ adjust_to_cased = flags[3]
    /\ full = flags[4]
    /\ dstsize = size
    /\ dst = <<>>
    /\ wbstate = state
    /\ chr_casekind = flags[1]
    /\ srcoff = 0
    /\ result_len = 0
    /\ boundary = 0
    /\ adjusting = TRUE
    /\ pc = "call"
    /\ ret = -1
    /\ maxread = -1
    /\ log = <<>>
    /\ prev = <<>>
    /\ pulled = <<>>
    /\ code = -1
    /\ mapped = <<>>
    /\ other = <<>>
    /\ interleaved = FALSE

\* a call from strtitle_builtin and its like, which build the state of
\* initcap_wbnext
Enter(t, len, after, flags, size) ==
    EnterWith(t, len, after, flags, size,
              WordBoundaryState(ToSizeT(len), flags[4]))

\* the same call made again with another buffer size or length argument
Reenter(len, size) ==
    /\ srclen' = ToSizeT(len)
    /\ dstsize' = size
    /\ dst' = <<>>
    /\ wbstate' = WordBoundaryState(ToSizeT(len), full)
    /\ chr_casekind' = str_casekind
    /\ srcoff' = 0
    /\ result_len' = 0
    /\ boundary' = 0
    /\ adjusting' = TRUE
    /\ pc' = "call"
    /\ ret' = -1
    /\ maxread' = -1
    /\ log' = <<>>
    /\ pulled' = <<>>
    /\ prev' = <<[ret |-> ret, dst |-> dst, dstsize |-> dstsize,
                  srclen |-> srclen, log |-> log,
                  again |-> IF ToSizeT(len) = srclen THEN "resize"
                            ELSE "relength"]>>
    /\ UNCHANGED <<params, src, rest>>

\* the calls over an alphabet: a NUL-terminated string holds no U+0000, a
\* string given with its length may, and may be followed by any byte
InitOver(alphabet, n, flagset, sizes) ==
    /\ coll = <<>>
    /\ icu = <<>>
    /\ \E t \in Texts(alphabet, n), flags \in flagset, size \in sizes :
           \/ /\ \A k \in DOMAIN t : t[k] # 0
              /\ Enter(t, -1, 0, flags, size)
           \/ \E after \in {0, 97} :
                 Enter(t, Len(Encode(t)), after, flags, size)

\* --------------------------------------------------------------- convert_case
\* the loop condition of convert_case: src[srcoff] is read first
LoopCond ==
    src[srcoff + 1] # 0 /\ (srclen < 0 \/ srcoff < srclen)

\* bytes written at C offset pos of d
Put(d, pos, bytes) ==
    [i \in (DOMAIN d) \cup (pos..(pos + Len(bytes) - 1)) |->
        IF i \in pos..(pos + Len(bytes) - 1) THEN bytes[i - pos + 1] ELSE d[i]]

\* emit, counting only the bytes that were written
emit_counts_written(bytes, u2len, rl, d) ==
    IF rl + u2len < dstsize
    THEN [result_len |-> rl + u2len, dst |-> Put(d, rl, bytes)]
    ELSE [result_len |-> rl, dst |-> d]

\* emit, testing only that the first byte fits
emit_first_fits(bytes, u2len, rl, d) ==
    [result_len |-> rl + u2len,
     dst |-> IF rl < dstsize THEN Put(d, rl, bytes) ELSE d]

\* the write of one mapped or copied codepoint of u2len bytes
emit(bytes, u2len, rl, d) ==
    [result_len |-> rl + u2len,
     dst |-> IF rl + u2len < dstsize THEN Put(d, rl, bytes) ELSE d]

\* the bytes a special mapping stands for, from C index i of map
RECURSIVE special_bytes(_, _)
special_bytes(map, i) ==
    IF i < MAX_CASE_EXPANSION /\ map[i + 1] # 0
    THEN unicode_to_utf8(map[i + 1]) \o special_bytes(map, i + 1)
    ELSE <<>>

\* the loop over a special mapping, from C index i of map
RECURSIVE emit_special(_, _, _, _)
emit_special(map, i, rl, d) ==
    IF i < MAX_CASE_EXPANSION /\ map[i + 1] # 0 THEN
        LET e == emit(unicode_to_utf8(map[i + 1]),
                      unicode_utf8len(map[i + 1]), rl, d)
        IN  emit_special(map, i + 1, e.result_len, e.dst)
    ELSE [result_len |-> rl, dst |-> d]

\* the adjustment test without adjust_to_cased: every codepoint ends it
adjustment_done_always(u1) == TRUE

\* while adjusting: does codepoint u1 end the adjustment and start the word
adjustment_done(u1) == ~adjust_to_cased \/ pg_u_prop_cased(u1)

\* the kind of the word's first codepoint chosen as CaseTitle always
start_kind_title == CaseTitle

\* the case kind the codepoint that starts a word is mapped with
start_kind == IF real_titlecase THEN CaseTitle ELSE CaseUpper

\* the boundary test as past the pending boundary
at_boundary_past == str_casekind = CaseTitle /\ srcoff > boundary

\* titlecasing, and the source offset is the pending boundary
at_boundary == str_casekind = CaseTitle /\ srcoff = boundary

\* the state at a boundary left as it was
adjusting_kept(atb) == adjusting

\* the titlecasing state an iteration starts in: reset at a boundary
adjusting_at(atb) == IF atb THEN TRUE ELSE adjusting

\* the test without its full conjunct
wants_special_any(casemap) ==
    casemap # -1 /\ case_map[casemap + 1].special_case # 0

\* the test that guards the search for a special case: casemap is the C
\* index find_case_map returned, -1 for NULL
wants_special(casemap) ==
    full /\ casemap # -1 /\ case_map[casemap + 1].special_case # 0

\* the mapping step with the simple branch not an else: a special mapping is
\* followed by the simple one
perform_mapping_no_else(special, casemap, kind, u1len) ==
    IF special # 0 THEN
        LET e == emit_special(special_case[special].map[kind], 0,
                              result_len, dst)
            u2 == case_map[casemap + 1].simplemap[kind]
        IN  emit(unicode_to_utf8(u2), unicode_utf8len(u2), e.result_len, e.dst)
    ELSE IF casemap # -1 THEN
        LET u2 == case_map[casemap + 1].simplemap[kind]
        IN  emit(unicode_to_utf8(u2), unicode_utf8len(u2), result_len, dst)
    ELSE emit(SubSeq(src, srcoff + 1, srcoff + u1len), u1len, result_len, dst)

\* perform mapping, update result_len, and write to dst: special is the
\* matching special case (0 for NULL), casemap the table entry (-1 for NULL)
perform_mapping(special, casemap, kind, u1len) ==
    IF special # 0 THEN
        emit_special(special_case[special].map[kind], 0, result_len, dst)
    ELSE IF casemap # -1 THEN
        LET u2 == case_map[casemap + 1].simplemap[kind]
        IN  emit(unicode_to_utf8(u2), unicode_utf8len(u2), result_len, dst)
    ELSE emit(SubSeq(src, srcoff + 1, srcoff + u1len), u1len, result_len, dst)

\* the source offset advanced by the length of what was emitted
next_srcoff_emitted(u1len, emitted) == srcoff + emitted

\* the source offset after an iteration over a codepoint of u1len bytes that
\* emitted that many bytes
next_srcoff(u1len, emitted) == srcoff + u1len

\* entry of convert_case: locals initialised, first boundary pulled
Call ==
    /\ pc = "call"
    /\ chr_casekind' = str_casekind
    /\ srcoff' = 0
    /\ result_len' = 0
    /\ adjusting' = TRUE
    /\ IF str_casekind = CaseTitle
       THEN LET wb == wbnext(src, wbstate)
            IN  /\ boundary' = wb.ret
                /\ wbstate' = wb.st
                /\ pulled' = Append(pulled, wb.ret)
                \* Assert(boundary == 0): a build with assertions stops
                \* here when it fails, a build without them goes on
                /\ \/ pc' = "loop"
                   \/ wb.ret # 0 /\ pc' = "abort"
       ELSE boundary' = 0 /\ pc' = "loop" /\ UNCHANGED <<wbstate, pulled>>
    /\ UNCHANGED <<params, src, srclen, dstsize, dst, ret, maxread, log, prev,
                   rest>>

\* one iteration of the while loop of convert_case
Iterate ==
    /\ pc = "loop"
    /\ LoopCond
    /\ LET u1 == utf8_to_unicode(src, srcoff)
           u1len == unicode_utf8len(u1)
           title == str_casekind = CaseTitle
           atb == at_boundary
           wb == IF atb THEN wbnext(src, wbstate)
                 ELSE [ret |-> boundary, st |-> wbstate]
           adj == adjusting_at(atb)
           start == title /\ adj /\ adjustment_done(u1)
           skip == title /\ adj /\ ~start
           kind == IF start THEN start_kind
                   ELSE IF title /\ ~adj THEN CaseLower
                   ELSE chr_casekind
           casemap == IF skip THEN -1 ELSE find_case_map(u1)
           sp == IF casemap # -1 THEN case_map[casemap + 1].special_case ELSE 0
           asked == wants_special(casemap)
           chk == IF asked
                  THEN check_special_conditions(special_case[sp].conditions,
                                                src, srclen, srcoff)
                  ELSE [res |-> FALSE, hi |-> -1]
           special == IF asked /\ chk.res THEN sp ELSE 0
           out == perform_mapping(special, casemap, kind, u1len)
       IN  /\ boundary' = wb.ret
           /\ wbstate' = wb.st
           /\ pulled' = IF atb THEN Append(pulled, wb.ret) ELSE pulled
           /\ adjusting' = IF start THEN FALSE ELSE adj
           /\ chr_casekind' = kind
           /\ result_len' = out.result_len
           /\ dst' = out.dst
           /\ srcoff' = next_srcoff(u1len, out.result_len - result_len)
           /\ maxread' = Max(Max(maxread, srcoff + u1len - 1), chk.hi)
           /\ log' = Append(log,
                  [off |-> srcoff, u1 |-> u1, pulled |-> atb,
                   adjusting |-> adj, kind |-> kind,
                   how |-> IF special # 0 THEN "special"
                           ELSE IF casemap # -1 THEN "simple" ELSE "copy",
                   asked |-> asked, cond |-> chk.res,
                   casemap |-> casemap, len |-> out.result_len - result_len,
                   bytes |-> IF special # 0 THEN
                                 special_bytes(special_case[special].map[kind], 0)
                             ELSE IF casemap # -1 THEN
                                 unicode_to_utf8(
                                     case_map[casemap + 1].simplemap[kind])
                             ELSE SubSeq(src, srcoff + 1, srcoff + u1len)])
    /\ UNCHANGED <<params, src, srclen, dstsize, pc, ret, prev, rest>>

\* Return, terminating a truncated result in the last byte of dst
Return_always_terminated ==
    /\ pc = "loop"
    /\ ~LoopCond
    /\ maxread' = Max(maxread, srcoff)
    /\ dst' = IF result_len < dstsize THEN Put(dst, result_len, <<0>>)
              ELSE IF dstsize > 0 THEN Put(dst, dstsize - 1, <<0>>)
              ELSE dst
    /\ ret' = result_len
    /\ pc' = "done"
    /\ UNCHANGED <<params, src, srclen, dstsize, wbstate, locals, log, prev,
                   pulled, rest>>

\* the loop condition fails: terminate dst if there is room, and return
Return ==
    /\ pc = "loop"
    /\ ~LoopCond
    /\ maxread' = Max(maxread, srcoff)
    /\ dst' = IF result_len < dstsize THEN Put(dst, result_len, <<0>>) ELSE dst
    /\ ret' = result_len
    /\ pc' = "done"
    /\ UNCHANGED <<params, src, srclen, dstsize, wbstate, locals, log, prev,
                   pulled, rest>>

\* the caller sized the result with dstsize = 0 and dst = NULL, and calls
\* again with a buffer: of ret + 1 bytes, or of any other size
Resize ==
    /\ pc = "done"
    /\ prev = <<>>
    /\ dstsize = 0
    /\ \E size \in (0..MaxDst) \cup {ret + 1} :
          Reenter(IF srclen = SIZE_MAX THEN -1 ELSE srclen, size)

\* the caller of a call with srclen = strlen(src) on a NUL-terminated src
\* calls again with srclen = -1
Relength ==
    /\ pc = "done"
    /\ prev = <<>>
    /\ srclen # SIZE_MAX
    /\ src[srclen + 1] = 0
    /\ \A k \in 1..srclen : src[k] # 0
    /\ Reenter(-1, dstsize)

Next == Call \/ Iterate \/ Return \/ Resize \/ Relength

\* ------------------------------------------------------------ specifications
\* U+0000, a, U+00B7 MIDDLE DOT (Case_Ignorable, no case_map entry),
\* U+0130 I WITH DOT ABOVE (lowercase shorter or longer than itself),
\* U+03A3 SIGMA (Final_Sigma)
Alphabet == {0, 97, 183, 304, 931}

Init == InitOver(Alphabet, MaxLen, Flags, 0..MaxDst)

Spec == Init /\ [][Next]_vars

\* Final_Sigma contexts: U+0000, space (neither Cased nor Case_Ignorable),
\* a (Cased), U+00B7 (Case_Ignorable), U+03A3; lowercase and uppercase with
\* full mappings
SigmaAlphabet == {0, 32, 97, 183, 931}

InitSigma ==
    InitOver(SigmaAlphabet, MaxLenSigma,
             {<<CaseLower, FALSE, FALSE, TRUE>>,
              <<CaseUpper, FALSE, FALSE, TRUE>>},
             {0, 1})

SpecSigma == InitSigma /\ [][Next]_vars

\* ASCII titlecasing: space, 1, A, a; real_titlecase = false and
\* adjust_to_cased = true
AsciiAlphabet == {32, 49, 65, 97}

InitAscii ==
    InitOver(AsciiAlphabet, MaxLenAscii,
             {<<CaseTitle, FALSE, TRUE, f>> : f \in BOOLEAN},
             {0, MaxLenAscii + 1})

SpecAscii == InitAscii /\ [][Next]_vars

\* two threads: the state of the call that is not running. Every variable
\* of a call is an argument or an automatic variable of convert_case, or
\* memory its caller owns (src, dst, the WordBoundaryState)
Suspended ==
    [text |-> text,
     src |-> src,
     srclen |-> srclen,
     str_casekind |-> str_casekind,
     real_titlecase |-> real_titlecase,
     adjust_to_cased |-> adjust_to_cased,
     full |-> full,
     dstsize |-> dstsize,
     dst |-> dst,
     wbstate |-> wbstate,
     chr_casekind |-> chr_casekind,
     srcoff |-> srcoff,
     result_len |-> result_len,
     boundary |-> boundary,
     adjusting |-> adjusting,
     pc |-> pc,
     ret |-> ret,
     maxread |-> maxread,
     log |-> log,
     prev |-> prev,
     pulled |-> pulled]

\* a call the second thread is about to make
Fresh(t, flags, size) ==
    [text |-> t, src |-> Encode(t) \o <<0>>, srclen |-> SIZE_MAX,
     str_casekind |-> flags[1], real_titlecase |-> flags[2],
     adjust_to_cased |-> flags[3], full |-> flags[4], dstsize |-> size,
     dst |-> <<>>, wbstate |-> WordBoundaryState(SIZE_MAX, flags[4]),
     chr_casekind |-> flags[1], srcoff |-> 0, result_len |-> 0,
     boundary |-> 0, adjusting |-> TRUE, pc |-> "call", ret |-> -1,
     maxread |-> -1, log |-> <<>>, prev |-> <<>>, pulled |-> <<>>]

MaxLenConc == 2

ConcAlphabet == {32, 97, 931}

\* the codepoints of the second thread's string
OtherAlphabet == {97, 931}

ConcFlags ==
    {<<CaseLower, FALSE, FALSE, TRUE>>, <<CaseUpper, FALSE, FALSE, FALSE>>,
     <<CaseTitle, FALSE, TRUE, TRUE>>}

ConcSize == 3

\* the call that ran alone is made again while a second thread makes a call
\* of its own
Spawn ==
    /\ pc = "done"
    /\ prev = <<>>
    /\ other = <<>>
    /\ \E t \in Texts(OtherAlphabet, MaxLenConc), flags \in ConcFlags :
          other' = Fresh(t, flags, ConcSize)
    /\ dst' = <<>>
    /\ wbstate' = WordBoundaryState(srclen, full)
    /\ chr_casekind' = str_casekind
    /\ srcoff' = 0
    /\ result_len' = 0
    /\ boundary' = 0
    /\ adjusting' = TRUE
    /\ pc' = "call"
    /\ ret' = -1
    /\ maxread' = -1
    /\ log' = <<>>
    /\ pulled' = <<>>
    /\ prev' = <<[ret |-> ret, dst |-> dst, dstsize |-> dstsize,
                  srclen |-> srclen, log |-> log, again |-> "alone"]>>
    /\ UNCHANGED <<params, src, srclen, dstsize, code, mapped, interleaved,
                   coll, icu>>

\* the switch with result_len in static storage: one variable for both calls
Switch_static_result_len ==
    /\ other # <<>>
    /\ other' = Suspended
    /\ interleaved' = (interleaved \/ (pc = "loop" /\ other.pc = "loop"
                                         /\ log # <<>> /\ other.log # <<>>))
    /\ text' = other.text
    /\ src' = other.src
    /\ srclen' = other.srclen
    /\ str_casekind' = other.str_casekind
    /\ real_titlecase' = other.real_titlecase
    /\ adjust_to_cased' = other.adjust_to_cased
    /\ full' = other.full
    /\ dstsize' = other.dstsize
    /\ dst' = other.dst
    /\ wbstate' = other.wbstate
    /\ chr_casekind' = other.chr_casekind
    /\ srcoff' = other.srcoff
    /\ boundary' = other.boundary
    /\ adjusting' = other.adjusting
    /\ pc' = other.pc
    /\ ret' = other.ret
    /\ maxread' = other.maxread
    /\ log' = other.log
    /\ prev' = other.prev
    /\ pulled' = other.pulled
    /\ UNCHANGED <<result_len, code, mapped, coll, icu>>

\* the scheduler switches threads between two steps
Switch ==
    /\ other # <<>>
    /\ other' = Suspended
    /\ interleaved' = (interleaved \/ (pc = "loop" /\ other.pc = "loop"
                                         /\ log # <<>> /\ other.log # <<>>))
    /\ text' = other.text
    /\ src' = other.src
    /\ srclen' = other.srclen
    /\ str_casekind' = other.str_casekind
    /\ real_titlecase' = other.real_titlecase
    /\ adjust_to_cased' = other.adjust_to_cased
    /\ full' = other.full
    /\ dstsize' = other.dstsize
    /\ dst' = other.dst
    /\ wbstate' = other.wbstate
    /\ chr_casekind' = other.chr_casekind
    /\ srcoff' = other.srcoff
    /\ result_len' = other.result_len
    /\ boundary' = other.boundary
    /\ adjusting' = other.adjusting
    /\ pc' = other.pc
    /\ ret' = other.ret
    /\ maxread' = other.maxread
    /\ log' = other.log
    /\ prev' = other.prev
    /\ pulled' = other.pulled
    /\ UNCHANGED <<code, mapped, coll, icu>>

InitConc == InitOver(ConcAlphabet, MaxLenConc, ConcFlags, {ConcSize})

NextConc == Call \/ Iterate \/ Return \/ Spawn \/ Switch

SpecConc == InitConc /\ [][NextConc]_vars

\* a consumer of the word boundaries of a string calls initcap_wbnext once
\* more on the state strtitle_builtin set up
MaxPulls == 6

Pull ==
    /\ pc = "call"
    /\ str_casekind = CaseTitle
    /\ Len(pulled) < MaxPulls
    /\ LET wb == initcap_wbnext(src, wbstate)
       IN  /\ wbstate' = wb.st
           /\ pulled' = Append(pulled, wb.ret)
    /\ UNCHANGED <<params, src, srclen, dstsize, dst, locals, pc, ret,
                   maxread, log, prev, rest>>

\* word boundaries: U+0000, space, 1, a, U+03A3 (alphanumeric, two bytes)
MaxLenBoundary == 3

BoundaryAlphabet == {0, 32, 49, 97, 931}

InitBoundary ==
    InitOver(BoundaryAlphabet, MaxLenBoundary,
             {<<CaseTitle, FALSE, TRUE, f>> : f \in BOOLEAN}, {0})

NextBoundary == Pull

SpecBoundary == InitBoundary /\ [][NextBoundary]_vars

\* the codepoints encoded in bytes from C offset i on
RECURSIVE Decode(_, _)
Decode(bytes, i) ==
    IF i >= Len(bytes) THEN <<>>
    ELSE <<utf8_to_unicode(bytes, i)>>
             \o Decode(bytes, i + utf8_seqlen(bytes[i + 1]))

\* the caller converts the result of a lowercasing or uppercasing again, in
\* the same way: the result was stored whole and NUL-terminated, and is the
\* source of the new call
Reapply ==
    /\ pc = "done"
    /\ prev = <<>>
    /\ str_casekind # CaseTitle
    /\ ret < dstsize
    /\ LET result == [i \in 1..ret |-> dst[i - 1]]
       IN  /\ text' = Decode(result, 0)
           /\ src' = result \o <<dst[ret]>>
           /\ srclen' = IF srclen = SIZE_MAX THEN SIZE_MAX ELSE ret
           /\ wbstate' = WordBoundaryState(
                             IF srclen = SIZE_MAX THEN SIZE_MAX ELSE ret, full)
    /\ dst' = <<>>
    /\ chr_casekind' = str_casekind
    /\ srcoff' = 0
    /\ result_len' = 0
    /\ boundary' = 0
    /\ adjusting' = TRUE
    /\ pc' = "call"
    /\ ret' = -1
    /\ maxread' = -1
    /\ log' = <<>>
    /\ pulled' = <<>>
    /\ prev' = <<[ret |-> ret, dst |-> dst, dstsize |-> dstsize,
                  srclen |-> srclen, log |-> log, again |-> "reapply"]>>
    /\ UNCHANGED <<str_casekind, real_titlecase, adjust_to_cased, full,
                   dstsize, rest>>

\* idempotence: codepoints without a special case, among them U+00B5 and
\* U+01C5 whose mappings leave their own case pair, and both small sigmas;
\* lowercase and uppercase, a buffer that holds every result
MaxLenIdem == 3

IdemAlphabet == {65, 97, 181, 183, 453, 962, 963}

InitIdem ==
    InitOver(IdemAlphabet, MaxLenIdem,
             {<<k, FALSE, FALSE, f>> :
                 k \in {CaseLower, CaseUpper}, f \in BOOLEAN},
             {(2 * MaxLenIdem) + 1})

NextIdem == Call \/ Iterate \/ Return \/ Reapply

SpecIdem == InitIdem /\ [][NextIdem]_vars

\* the simple mapping functions called on the first codepoint of the string
Simple ==
    /\ pc = "call"
    /\ prev = <<>>
    /\ code = -1
    /\ text # <<>>
    /\ code' = text[1]
    /\ mapped' = [map |-> find_case_map(text[1]),
                  steps |-> find_case_map_steps(text[1]),
                  lower |-> unicode_lowercase_simple(text[1]),
                  title |-> unicode_titlecase_simple(text[1]),
                  upper |-> unicode_uppercase_simple(text[1])]
    /\ UNCHANGED <<params, src, srclen, dstsize, dst, wbstate, locals, pc,
                   ret, maxread, log, prev, pulled, other, interleaved,
                   coll, icu>>

\* lookups: every codepoint up to LookupMax, as a one-codepoint string
LookupMax == 1023

InitLookup == InitOver(0..LookupMax, 1, Flags, {5})

NextLookup == Simple \/ Call \/ Iterate \/ Return

SpecLookup == InitLookup /\ [][NextLookup]_vars

\* titlecasing with every flag combination: space, 1 (alphanumeric, not
\* Cased), a, U+01C6 (titlecase U+01C5, uppercase U+01C4)
MaxLenTitle == 3

TitleAlphabet == {32, 49, 97, 454}

InitTitle ==
    InitOver(TitleAlphabet, MaxLenTitle,
             {<<CaseTitle, r, a, f>> :
                 r \in BOOLEAN, a \in BOOLEAN, f \in BOOLEAN},
             {0, 3})

SpecTitle == InitTitle /\ [][Next]_vars

\* expansions: a, U+00DF (two codepoints when titlecased or uppercased),
\* U+0130 (two when lowercased), U+0390 (three when titlecased or uppercased)
MaxLenExpand == 2

ExpandAlphabet == {97, 223, 304, 912}

InitExpand == InitOver(ExpandAlphabet, MaxLenExpand, Flags, {0, 2})

SpecExpand == InitExpand /\ [][Next]_vars

\* ------------------------------------------------- strncoll_builtin_ci
\* the size of a fold buffer
UNICODE_CASEMAP_BUFSZ == 12

\* the case folding of one codepoint, as codepoints
casefold(c, fullmap) ==
    IF fullmap /\ c = 223 THEN <<115, 115>>
    ELSE IF fullmap /\ c = 304 THEN <<105, 775>>
    ELSE IF fullmap /\ c = 912 THEN <<953, 776, 769>>
    ELSE IF c \in 65..90 THEN <<c + 32>>
    ELSE IF c = 181 THEN <<956>>
    ELSE IF c \in {452, 453} THEN <<454>>
    ELSE IF c = 924 THEN <<956>>
    ELSE IF c \in {931, 962} THEN <<963>>
    ELSE <<c>>

\* pg_utf_mblen: the length of the sequence that starts at C offset p
pg_utf_mblen(str, p) == utf8_seqlen(str[p + 1])

\* unicode_strfold of the len bytes at C offset p of str, with a buffer
\* that holds the whole result
RECURSIVE unicode_strfold(_, _, _, _)
unicode_strfold(str, p, len, fullmap) ==
    IF len <= 0 THEN <<>>
    ELSE LET ulen == pg_utf_mblen(str, p) IN
         Encode(casefold(utf8_to_unicode(str, p), fullmap))
             \o unicode_strfold(str, p + ulen, len - ulen, fullmap)

\* strlen
RECURSIVE strlen(_)
strlen(str) == IF Head(str) = 0 THEN 0 ELSE 1 + strlen(Tail(str))

Min(a, b) == IF a < b THEN a ELSE b

\* memcmp of the first n bytes of a and b, bytes compared as unsigned char
RECURSIVE memcmp(_, _, _)
memcmp(a, b, n) ==
    IF n = 0 THEN 0
    ELSE IF Head(a) # Head(b) THEN Head(a) - Head(b)
    ELSE memcmp(Tail(a), Tail(b), n - 1)

\* what a buffer holds after its first n bytes were compared, with the
\* remaining bytes dropped
leftover_dropped(buf, n) == <<>>

\* what a buffer holds after its first n bytes were compared and the
\* remaining bytes moved to its beginning
leftover(buf, n) == SubSeq(buf, n + 1, Len(buf))

\* the condition of the while loop
CollLoopCond ==
    /\ coll.r1 > 0 \/ Len(coll.buf1) > 0
    /\ coll.r2 > 0 \/ Len(coll.buf2) > 0

\* a call strncoll_builtin_ci(arg1, len1, arg2, len2, locale), up to the
\* loop; a NUL follows a string whose length is not given, another byte
\* one whose length is
Compare(t1, len1, t2, len2, fullmap) ==
    LET a1 == Encode(t1) \o <<IF len1 >= 0 THEN 97 ELSE 0>>
        a2 == Encode(t2) \o <<IF len2 >= 0 THEN 97 ELSE 0>>
    IN coll = [arg1 |-> a1, arg2 |-> a2, full |-> fullmap,
               len1 |-> IF len1 >= 0 THEN len1 ELSE strlen(a1),
               len2 |-> IF len2 >= 0 THEN len2 ELSE strlen(a2),
               p1 |-> 0, p2 |-> 0,
               r1 |-> IF len1 >= 0 THEN len1 ELSE strlen(a1),
               r2 |-> IF len2 >= 0 THEN len2 ELSE strlen(a2),
               buf1 |-> <<>>, buf2 |-> <<>>,
               iterations |-> 0, pc |-> "loop", result |-> 0]

\* one iteration of the loop
CollIterate ==
    /\ coll # <<>>
    /\ coll.pc = "loop"
    /\ CollLoopCond
    /\ LET f1 == Len(coll.buf1) = 0
           f2 == Len(coll.buf2) = 0
           ulen1 == IF f1 THEN pg_utf_mblen(coll.arg1, coll.p1) ELSE 0
           ulen2 == IF f2 THEN pg_utf_mblen(coll.arg2, coll.p2) ELSE 0
           b1 == IF f1
                 THEN unicode_strfold(coll.arg1, coll.p1, ulen1, coll.full)
                 ELSE coll.buf1
           b2 == IF f2
                 THEN unicode_strfold(coll.arg2, coll.p2, ulen2, coll.full)
                 ELSE coll.buf2
           nbytes_both == Min(Len(b1), Len(b2))
           result == memcmp(b1, b2, nbytes_both)
       IN IF result # 0
          THEN coll' = [coll EXCEPT !.buf1 = b1, !.buf2 = b2,
                                    !.iterations = @ + 1,
                                    !.pc = "done", !.result = result]
          ELSE coll' = [coll EXCEPT !.buf1 = leftover(b1, nbytes_both),
                                    !.buf2 = leftover(b2, nbytes_both),
                                    !.p1 = @ + ulen1, !.r1 = @ - ulen1,
                                    !.p2 = @ + ulen2, !.r2 = @ - ulen2,
                                    !.iterations = @ + 1]
    /\ UNCHANGED <<params, src, srclen, dstsize, dst, wbstate, locals, pc,
                   ret, maxread, log, prev, pulled, code, mapped, other,
                   interleaved, icu>>

\* the return after the loop
CollReturn ==
    /\ coll # <<>>
    /\ coll.pc = "loop"
    /\ ~CollLoopCond
    /\ LET done1 == coll.r1 = 0 /\ Len(coll.buf1) = 0
           done2 == coll.r2 = 0 /\ Len(coll.buf2) = 0
       IN coll' = [coll EXCEPT !.pc = "done",
                               !.result = IF done1 /\ ~done2 THEN -1
                                          ELSE IF ~done1 /\ done2 THEN 1
                                          ELSE 0]
    /\ UNCHANGED <<params, src, srclen, dstsize, dst, wbstate, locals, pc,
                   ret, maxread, log, prev, pulled, code, mapped, other,
                   interleaved, icu>>

\* comparisons: S, s, i, U+00DF (folds to ss), U+0130 (folds to i U+0307),
\* U+0307; both lengths given or both strings NUL-terminated
MaxLenColl == 2

CollAlphabet == {83, 105, 115, 223, 304, 775}

InitColl ==
    /\ Enter(<<>>, -1, 0, <<CaseLower, FALSE, FALSE, FALSE>>, 0)
    /\ icu = <<>>
    /\ \E t1 \in Texts(CollAlphabet, MaxLenColl),
          t2 \in Texts(CollAlphabet, MaxLenColl),
          fullmap \in BOOLEAN, counted \in BOOLEAN :
           Compare(t1, IF counted THEN Len(Encode(t1)) ELSE -1,
                   t2, IF counted THEN Len(Encode(t2)) ELSE -1, fullmap)

NextColl == CollIterate \/ CollReturn

SpecColl == InitColl /\ [][NextColl]_vars

\* ------------------------------------------------- icu_multilib_search
PG_MIN_ICU_MAJOR == 50

\* the major versions above PG_MIN_ICU_MAJOR the table has a slot for
IcuMajors == 2

PG_MAX_ICU_MAJOR == PG_MIN_ICU_MAJOR + IcuMajors

ICU_LIB_TABLESIZE == (PG_MAX_ICU_MAJOR - PG_MIN_ICU_MAJOR) + 2

\* icu_library_table[i] is table[i + 1]: NoLib for a NULL slot, otherwise
\* the version of the collator the library opens for the locale, NoCollator
\* if it opens none
NoLib == -1
NoCollator == 0
CollatorVersions == {1, 2}

\* the values icu_multilib_search returns: NULL, a slot of the table, or
\* the library the previous hook returned
NULL == -1
Builtin == ICU_LIB_TABLESIZE - 1
HookLib == ICU_LIB_TABLESIZE

\* lib_collator_version of the library in slot i: whether it opens a
\* collator of the locale
lib_collator_version(table, i) == table[i + 1] # NoCollator

\* the scan for the requested version from slot i down, the built-in
\* library scanned even when include_builtin is off
RECURSIVE scan_with_builtin(_, _, _, _)
scan_with_builtin(table, requested, include, i) ==
    IF i < 0 THEN NULL
    ELSE IF table[i + 1] = NoLib THEN
        scan_with_builtin(table, requested, include, i - 1)
    ELSE IF lib_collator_version(table, i) /\ table[i + 1] = requested THEN i
    ELSE scan_with_builtin(table, requested, include, i - 1)

\* the scan for the requested version from slot i down
RECURSIVE scan(_, _, _, _)
scan(table, requested, include, i) ==
    IF i < 0 THEN NULL
    ELSE IF table[i + 1] = NoLib THEN scan(table, requested, include, i - 1)
    ELSE IF ~include /\ i = ICU_LIB_TABLESIZE - 1 THEN
        scan(table, requested, include, i - 1)
    ELSE IF lib_collator_version(table, i) /\ table[i + 1] = requested THEN i
    ELSE scan(table, requested, include, i - 1)

get_icu_by_major_version(table, major) == table[(major - PG_MIN_ICU_MAJOR) + 1]

\* icu_multilib_search(collid, locale, requested_version, logOk)
Search ==
    /\ icu # <<>>
    /\ icu.pc = "call"
    /\ LET hooked ==
               IF icu.prev_icu_library_hook = "lib" THEN HookLib ELSE NULL
           scanned ==
               IF hooked = NULL /\ icu.search_by_collator_version
                       /\ icu.requested_version # NULL
               THEN scan(icu.table, icu.requested_version,
                         icu.include_builtin, ICU_LIB_TABLESIZE - 1)
               ELSE hooked
           use_default == scanned = NULL /\ icu.default_major # -1
           missing ==
               use_default
                   /\ get_icu_by_major_version(icu.table, icu.default_major)
                          = NoLib
           defaulted ==
               IF use_default /\ ~missing
                       /\ lib_collator_version(
                              icu.table, icu.default_major - PG_MIN_ICU_MAJOR)
               THEN icu.default_major - PG_MIN_ICU_MAJOR
               ELSE scanned
           found_lib ==
               IF defaulted = NULL /\ icu.include_builtin
                       /\ lib_collator_version(icu.table,
                                               ICU_LIB_TABLESIZE - 1)
               THEN ICU_LIB_TABLESIZE - 1
               ELSE defaulted
       IN icu' = IF missing
                 THEN [icu EXCEPT !.pc = "error"]
                 ELSE [icu EXCEPT !.pc = "done", !.found_lib = found_lib]
    /\ UNCHANGED <<params, src, srclen, dstsize, dst, wbstate, locals, pc,
                   ret, maxread, log, prev, pulled, code, mapped, other,
                   interleaved, coll>>

\* the settings and libraries a search can meet: the previous hook unset,
\* returning NULL, a library without the collator or one with it; the
\* built-in library always in the last slot; a default version only of a
\* library that is loaded (check_string_version)
InitIcu ==
    /\ Enter(<<>>, -1, 0, <<CaseLower, FALSE, FALSE, FALSE>>, 0)
    /\ coll = <<>>
    /\ \E hook \in {"unset", "null", "nocollator", "lib"},
          sbcv \in BOOLEAN, include \in BOOLEAN,
          requested \in {NULL} \cup CollatorVersions,
          major \in {-1} \cup PG_MIN_ICU_MAJOR..PG_MAX_ICU_MAJOR,
          table \in [1..ICU_LIB_TABLESIZE ->
                        {NoLib, NoCollator} \cup CollatorVersions] :
           /\ table[ICU_LIB_TABLESIZE] # NoLib
           /\ major # -1 => get_icu_by_major_version(table, major) # NoLib
           /\ icu = [prev_icu_library_hook |-> hook,
                     search_by_collator_version |-> sbcv,
                     include_builtin |-> include,
                     requested_version |-> requested,
                     default_major |-> major,
                     table |-> table,
                     pc |-> "call", found_lib |-> NULL]

NextIcu == Search

SpecIcu == InitIcu /\ [][NextIcu]_vars

\* ------------------------------------------------- other boundary callbacks
\* titlecasing with a callback that yields a given list of offsets: a, space
\* and U+00DF (two bytes)
MaxLenProtocol == 3

\* the longest list of offsets a callback yields before it repeats the last
MaxYield == 4

ProtocolAlphabet == {32, 97, 223}

\* the offsets at which the codepoints of t start, and the length of t
Starts(t) == {Len(Encode(SubSeq(t, 1, k))) : k \in 0..Len(t)}

\* the lists a callback bound to t may yield: codepoint starts that never
\* decrease and end at the length of t
Protocols(t) ==
    {q \in UNION {[1..n -> Starts(t)] : n \in 1..MaxYield} :
        /\ q[Len(q)] = Len(Encode(t))
        /\ \A i \in 1..(Len(q) - 1) : q[i] <= q[i + 1]}

InitProtocol ==
    /\ coll = <<>>
    /\ icu = <<>>
    /\ \E t \in Texts(ProtocolAlphabet, MaxLenProtocol),
          r \in BOOLEAN, a \in BOOLEAN, f \in BOOLEAN,
          counted \in BOOLEAN :
         \E q \in Protocols(t) :
           EnterWith(t, IF counted THEN Len(Encode(t)) ELSE -1,
                     IF counted THEN 97 ELSE 0,
                     <<CaseTitle, r, a, f>>, 0, [offsets |-> q, calls |-> 0])

NextProtocol == Call \/ Iterate \/ Return

SpecProtocol == InitProtocol /\ [][NextProtocol]_vars

\* ------------------------------------------------- conversion in two parts
\* the locals and the history of a call that has not begun
Restart ==
    /\ dst' = <<>>
    /\ chr_casekind' = str_casekind
    /\ srcoff' = 0
    /\ result_len' = 0
    /\ boundary' = 0
    /\ adjusting' = TRUE
    /\ pc' = "call"
    /\ ret' = -1
    /\ maxread' = -1
    /\ log' = <<>>
    /\ pulled' = <<>>

\* the caller of a lowercasing or uppercasing converts, in the same way,
\* the first k codepoints of the string alone: in place with their length,
\* or copied and NUL-terminated when the string was NUL-terminated
ConvertHead ==
    /\ pc = "done"
    /\ prev = <<>>
    /\ str_casekind # CaseTitle
    /\ \E k \in 0..Len(text) :
          LET s1 == SubSeq(text, 1, k)
              n == Len(Encode(s1))
              len == IF srclen = SIZE_MAX THEN SIZE_MAX ELSE n
          IN  /\ text' = s1
              /\ src' = IF srclen = SIZE_MAX THEN Encode(s1) \o <<0>>
                        ELSE SubSeq(src, 1, n + 1)
              /\ srclen' = len
              /\ wbstate' = WordBoundaryState(len, full)
    /\ Restart
    /\ prev' = <<[ret |-> ret, dst |-> dst, dstsize |-> dstsize,
                  srclen |-> srclen, log |-> log, again |-> "head",
                  text |-> text, src |-> src]>>
    /\ UNCHANGED <<str_casekind, real_titlecase, adjust_to_cased, full,
                   dstsize, rest>>

\* and then the codepoints that follow them, where they lie
ConvertTail ==
    /\ pc = "done"
    /\ Len(prev) = 1
    /\ prev[1].again = "head"
    /\ LET whole == prev[1]
           n == Len(Encode(text))
           len == IF whole.srclen = SIZE_MAX THEN SIZE_MAX
                  ELSE whole.srclen - n
       IN  /\ text' = SubSeq(whole.text, Len(text) + 1, Len(whole.text))
           /\ src' = SubSeq(whole.src, n + 1, Len(whole.src))
           /\ srclen' = len
           /\ wbstate' = WordBoundaryState(len, full)
    /\ Restart
    /\ prev' = Append(prev,
                      [ret |-> ret, dst |-> dst, dstsize |-> dstsize,
                       srclen |-> srclen, log |-> log, again |-> "tail",
                       text |-> text, src |-> src])
    /\ UNCHANGED <<str_casekind, real_titlecase, adjust_to_cased, full,
                   dstsize, rest>>

\* concatenation: A, a, U+0130 (lowercase one byte shorter) and U+03A3,
\* whose full lowercase mapping depends on its neighbours; the buffer holds
\* every result
MaxLenCat == 3

CatAlphabet == {65, 97, 304, 931}

InitCat ==
    InitOver(CatAlphabet, MaxLenCat,
             {<<k, FALSE, FALSE, f>> :
                 k \in {CaseLower, CaseUpper}, f \in BOOLEAN},
             {(3 * MaxLenCat) + 1})

NextCat == Call \/ Iterate \/ Return \/ ConvertHead \/ ConvertTail

SpecCat == InitCat /\ [][NextCat]_vars

\* ------------------------------------------------------------------ claims
\* the fully converted string: what each iteration mapped its codepoint to
RECURSIVE Concat(_)
Concat(recs) ==
    IF recs = <<>> THEN <<>> ELSE Head(recs).bytes \o Concat(Tail(recs))

Full == Concat(log)

\* this call repeats the previous one with another dstsize
Resized == prev # <<>> /\ prev[1].srclen = srclen

\* C1: the value returned does not depend on dstsize: the call that follows
\* a sizing call (dstsize = 0, dst = NULL) returns the same length whatever
\* its dstsize, and that length is the number of bytes a buffer of ret + 1
\* bytes receives before its terminating NUL.
C1_SizingContract ==
    (pc = "done" /\ Resized) =>
        /\ prev[1].dstsize = 0
        /\ prev[1].dst = <<>>
        /\ ret = prev[1].ret
        /\ ret = Len(Full)
        /\ dstsize = ret + 1 =>
              /\ DOMAIN dst = 0..ret
              /\ \A i \in 0..(ret - 1) : dst[i] = Full[i + 1]

\* C1 witness: a buffer of ret + 1 bytes was filled after a sizing call, with
\* a result whose length differs from the length of the source
C1_Witness ==
    /\ pc = "done" /\ Resized
    /\ dstsize = ret + 1
    /\ ret > Len(src) - 1

\* C2: no byte of dst at an index >= dstsize is ever written; with
\* dstsize = 0 nothing is written.
C2_NoWriteBeyondDstsize ==
    /\ \A i \in DOMAIN dst : i >= 0 /\ i < dstsize
    /\ dstsize = 0 => dst = <<>>

\* C2 witness: a truncated call that wrote part of its result
C2_Witness ==
    /\ pc = "done"
    /\ ret > dstsize
    /\ dst # <<>>
    /\ \E k \in DOMAIN log : log[k].how = "special"
    /\ \E k \in DOMAIN log : log[k].how = "copy"

\* C3: on return a NUL has been written at dst[ret] if and only if
\* ret < dstsize; when ret >= dstsize no NUL has been written anywhere.
C3_NulIffRoom ==
    pc = "done" =>
        /\ (ret \in DOMAIN dst /\ dst[ret] = 0) <=> (ret < dstsize)
        /\ ret >= dstsize => \A i \in DOMAIN dst : dst[i] # 0

\* C3 witness: a truncated result with bytes written and no NUL
C3_Witness ==
    /\ pc = "done"
    /\ ret >= dstsize
    /\ dst # <<>>

\* C4: whenever the result length is <= dstsize, the == dstsize case
\* included, every byte of the converted string is stored in dst[0 .. ret).
C4_StoredWhenFits ==
    (pc = "done" /\ ret <= dstsize) =>
        \A i \in 0..(ret - 1) : i \in DOMAIN dst /\ dst[i] = Full[i + 1]

\* C5: with an explicit length no source byte at an index >= srclen is read;
\* in NUL-terminated mode no byte after the terminating NUL is read.
C5_NoReadPastSource ==
    IF srclen # SIZE_MAX THEN maxread < srclen
    ELSE maxread <= Len(src) - 1

\* C6: with an explicit length the loop ends exactly when srcoff reaches
\* srclen, every codepoint of the range converted; with srclen < 0 it ends
\* exactly at the first NUL byte.
C6_LoopEndsByMode ==
    pc = "done" =>
        IF srclen # SIZE_MAX
        THEN srcoff = srclen /\ Len(log) = Len(text)
        ELSE src[srcoff + 1] = 0 /\ \A k \in 1..srcoff : src[k] # 0

\* this call repeats, with srclen = -1, a call that gave srclen = strlen(src)
Relengthed == prev # <<>> /\ prev[1].srclen # SIZE_MAX /\ srclen = SIZE_MAX

\* C7: for every NUL-terminated string, case kind and flag combination,
\* converting with srclen < 0 produces the same result length and the same
\* bytes in dst as converting with srclen = strlen(src): the call returns
\* as the explicit-length call did, and with the same results.
C7_ModeEquivalence ==
    Relengthed =>
        /\ pc # "abort"
        /\ pc = "done" => (ret = prev[1].ret /\ dst = prev[1].dst)

\* the results of the two modes agree whenever the srclen < 0 call returns
ModeEquivalenceOnReturn ==
    (Relengthed /\ pc = "done") => (ret = prev[1].ret /\ dst = prev[1].dst)

\* ASCII letters, digits, and the case of a letter, by value
IsUpperAscii(c) == c \in 65..90
IsLowerAscii(c) == c \in 97..122
IsLetterAscii(c) == IsUpperAscii(c) \/ IsLowerAscii(c)
IsAlnumAscii(c) == IsLetterAscii(c) \/ c \in 48..57

\* text[k] is the first letter of its maximal alphanumeric run: no letter
\* lies between the start of the run and k
FirstLetterOfRun(t, k) ==
    /\ IsLetterAscii(t[k])
    /\ \A j \in 1..(k - 1) :
          (\A m \in j..(k - 1) : IsAlnumAscii(t[m])) => ~IsLetterAscii(t[j])

Titled(t) ==
    [k \in 1..Len(t) |->
        IF FirstLetterOfRun(t, k) THEN
            (IF IsLowerAscii(t[k]) THEN t[k] - 32 ELSE t[k])
        ELSE IF IsUpperAscii(t[k]) THEN t[k] + 32
        ELSE t[k]]

\* C8: titlecasing an ASCII string with alphanumeric-transition boundaries,
\* real_titlecase = false and adjust_to_cased = true maps the first letter of
\* each maximal alphanumeric run to uppercase and every other letter to
\* lowercase, leaves every other byte unchanged, and returns the input length.
C8_AsciiTitlecase ==
    pc = "done" =>
        /\ ret = Len(text)
        /\ Full = Titled(text)
        /\ ret < dstsize =>
              \A k \in 1..Len(text) : dst[k - 1] = Titled(text)[k]

\* C8 witness: two words titlecased into a buffer, the second one starting
\* with a digit and holding an uppercase letter that was lowered
C8_Witness ==
    /\ pc = "done"
    /\ ret < dstsize
    /\ \E k \in 2..Len(text) :
          /\ ~IsAlnumAscii(text[k - 1])
          /\ IsAlnumAscii(text[k])
          /\ FirstLetterOfRun(text, k)
          /\ IsLowerAscii(text[k])
    /\ \E k \in 1..Len(text) :
          IsUpperAscii(text[k]) /\ ~FirstLetterOfRun(text, k)

\* the codepoint before position k that is nearest among those that are not
\* Case_Ignorable exists and is Cased
PrecededByCased(t, k) ==
    \E j \in 1..(k - 1) :
        /\ ~pg_u_prop_case_ignorable(t[j])
        /\ pg_u_prop_cased(t[j])
        /\ \A m \in (j + 1)..(k - 1) : pg_u_prop_case_ignorable(t[m])

\* the string as the conversion sees it: it ends at its first U+0000
RECURSIVE UpToNul(_)
UpToNul(t) ==
    IF t = <<>> \/ Head(t) = 0 THEN <<>> ELSE <<Head(t)>> \o UpToNul(Tail(t))

\* after position k, the string ends before any codepoint that is not
\* Case_Ignorable, or the first such codepoint is not Cased
NotFollowedByCased(t, k) ==
    \A j \in (k + 1)..Len(t) :
        (pg_u_prop_cased(t[j]) /\ ~pg_u_prop_case_ignorable(t[j])) =>
            \E m \in (k + 1)..(j - 1) : ~pg_u_prop_case_ignorable(t[m])

\* the iterations that evaluated the Final_Sigma condition
SigmaChecks ==
    {k \in DOMAIN log :
        log[k].asked /\ case_map[find_case_map(log[k].u1) + 1].special_case # 0
        /\ special_case[case_map[find_case_map(log[k].u1) + 1].special_case]
               .conditions = PG_U_FINAL_SIGMA}

\* C9: Final_Sigma holds at an offset only if the nearest codepoint before
\* it that is not Case_Ignorable exists and is Cased: not at offset 0, not
\* after a codepoint that is not Cased, not after Case_Ignorable codepoints
\* only.
C9_FinalSigmaNeedsCasedBefore ==
    \A k \in SigmaChecks : log[k].cond => PrecededByCased(text, k)

\* C10: when the backward part of Final_Sigma is satisfied, the condition
\* holds if and only if the string ends before any codepoint that is not
\* Case_Ignorable follows, or the first such codepoint is not Cased.
C10_FinalSigmaForward ==
    \A k \in SigmaChecks :
        PrecededByCased(text, k) =>
            (log[k].cond <=> NotFollowedByCased(UpToNul(text), k))

\* C10 witness: after a Cased codepoint, a sigma followed by a
\* Case_Ignorable codepoint and then a Cased one was refused
C10_Witness ==
    \E k \in SigmaChecks :
        /\ PrecededByCased(text, k)
        /\ ~log[k].cond
        /\ k + 2 <= Len(text)
        /\ pg_u_prop_case_ignorable(text[k + 1])
        /\ pg_u_prop_cased(text[k + 2])

\* ---------------------------------------------------------------- C11
\* the special-case entry of codepoint c, 0 if it has none
SpecialOf(c) ==
    IF find_case_map(c) = -1 THEN 0
    ELSE case_map[find_case_map(c) + 1].special_case

\* where the output of iteration k begins in the result
OutPos(k) == Len(Concat(SubSeq(log, 1, k - 1)))

\* the whole result was stored, and it shows bytes as iteration k's output
StoredAt(k, bytes) ==
    (pc = "done" /\ ret < dstsize) =>
        \A i \in 1..Len(bytes) : dst[OutPos(k) + i - 1] = bytes[i]

\* C11: with full mappings, a codepoint whose table entry has a special case
\* is emitted through the special mapping of the current case kind exactly
\* when the entry's condition holds at its offset (no condition: always;
\* Final_Sigma: as check_final_sigma answers), and through its simple mapping
\* otherwise. So, lowercasing, a capital sigma preceded by a cased letter
\* comes out as U+03C2 at the end of its word and as U+03C3 when a cased
\* letter follows it.
C11_SpecialIffCondition ==
    full =>
        \A k \in DOMAIN log :
            LET r == log[k]
                sp == SpecialOf(r.u1)
                holds == check_special_conditions(
                             special_case[sp].conditions, src, srclen,
                             r.off).res
                expected == IF holds
                            THEN special_bytes(special_case[sp].map[r.kind], 0)
                            ELSE unicode_to_utf8(
                                     case_map[find_case_map(r.u1) + 1]
                                         .simplemap[r.kind])
            IN  /\ sp # 0 =>
                    /\ r.how = (IF holds THEN "special" ELSE "simple")
                    /\ r.bytes = expected
                    /\ StoredAt(k, expected)
                /\ (str_casekind = CaseLower /\ r.u1 = 931
                        /\ PrecededByCased(text, k)) =>
                    r.bytes = (IF NotFollowedByCased(UpToNul(text), k)
                               THEN unicode_to_utf8(962)
                               ELSE unicode_to_utf8(963))

\* a lowercased word holding both sigmas: one followed by a cased letter, and
\* the last letter of the word, each stored in its own form
C11_Witness ==
    /\ pc = "done" /\ ret < dstsize
    /\ str_casekind = CaseLower /\ full
    /\ \E j, k \in DOMAIN log :
           /\ j < k
           /\ log[j].u1 = 931 /\ log[k].u1 = 931
           /\ PrecededByCased(text, j) /\ PrecededByCased(text, k)
           /\ log[j].how = "simple" /\ log[j].bytes = unicode_to_utf8(963)
           /\ log[k].how = "special" /\ log[k].bytes = unicode_to_utf8(962)
           /\ dst[OutPos(k)] = 207 /\ dst[OutPos(k) + 1] = 130
\* ---------------------------------------------------------------- C12
\* the number of codepoints encoded in a byte sequence
Codepoints(bytes) == Cardinality({i \in DOMAIN bytes : is_lead(bytes[i])})

\* the bytes stored in dst[0 .. n)
Stored(n) == [i \in 1..n |-> dst[i - 1]]

\* C12: with simple mappings only, no iteration looks for a special case or
\* evaluates a condition, every codepoint with a table entry is replaced by
\* the one codepoint simplemap[chr_casekind] of its entry, and the result
\* has as many codepoints as the string converted.
C12_SimpleOnly ==
    ~full =>
        /\ \A k \in DOMAIN log :
               LET r == log[k]
               IN  /\ ~r.asked /\ ~r.cond /\ r.how # "special"
                   /\ Codepoints(r.bytes) = 1
                   /\ r.len = Len(r.bytes)
                   /\ (find_case_map(r.u1) # -1 /\ r.how # "copy") =>
                          r.bytes = unicode_to_utf8(
                              case_map[find_case_map(r.u1) + 1]
                                  .simplemap[r.kind])
        /\ pc = "done" =>
               /\ Len(log) = Len(UpToNul(text))
               /\ Codepoints(Full) = Len(UpToNul(text))
               /\ ret < dstsize => Codepoints(Stored(ret)) = Len(UpToNul(text))

\* simple lowercasing of a string with U+0130, whose special lowercase has
\* two codepoints, and a word-final sigma: one codepoint each
C12_Witness ==
    /\ pc = "done" /\ ret < dstsize /\ ~full
    /\ str_casekind = CaseLower
    /\ \E j, k \in DOMAIN log :
           /\ log[j].u1 = 304 /\ log[j].bytes = <<105>>
           /\ log[k].u1 = 931 /\ k = Len(text) /\ PrecededByCased(text, k)
           /\ log[k].bytes = unicode_to_utf8(963)
    /\ Codepoints(Stored(ret)) = Len(text)
\* ---------------------------------------------------------------- C13
\* C13: no source codepoint contributes more than PG_U_MAX_CASE_EXPANSION
\* codepoints to the result, for any case kind, with full mappings or
\* without: every iteration advances result_len by the bytes of at most that
\* many codepoints, and the stored result of a one-codepoint string has at
\* most that many.
C13_ExpansionBound ==
    /\ \A k \in DOMAIN log :
           /\ Codepoints(log[k].bytes) <= MAX_CASE_EXPANSION
           /\ log[k].len = Len(log[k].bytes)
    /\ (pc = "done" /\ ret < dstsize /\ Len(log) = 1) =>
           Codepoints(Stored(ret)) <= MAX_CASE_EXPANSION

\* U+0390 uppercased with full mappings: three codepoints stored
C13_Witness ==
    /\ pc = "done" /\ ret < dstsize /\ full
    /\ text = <<912>> /\ str_casekind = CaseUpper
    /\ Codepoints(Stored(ret)) = MAX_CASE_EXPANSION
    /\ Stored(ret) = unicode_to_utf8(921) \o unicode_to_utf8(776)
                         \o unicode_to_utf8(769)
\* ---------------------------------------------------------------- C14
\* codepoint c is the key of no entry of the case map table
NoEntry(c) == \A i \in DOMAIN case_map : case_map[i].codepoint # c

\* C14: for a codepoint with no entry in the case map table the three simple
\* mapping functions return the codepoint itself, and convert_case, in every
\* case kind, with full mappings or without, copies its UTF-8 bytes from the
\* source unchanged.
C14_UnmappedCopied ==
    /\ (code # -1 /\ NoEntry(code)) =>
           /\ mapped.map = -1
           /\ mapped.lower = code
           /\ mapped.title = code
           /\ mapped.upper = code
    /\ \A k \in DOMAIN log :
           NoEntry(log[k].u1) =>
               LET original == SubSeq(src, log[k].off + 1,
                                      log[k].off + unicode_utf8len(log[k].u1))
               IN  /\ log[k].how = "copy"
                   /\ log[k].bytes = original
                   /\ log[k].len = Len(original)
                   /\ StoredAt(k, original)

\* U+00B7, which has no entry: looked up, then uppercased with full
\* mappings and stored as its own two bytes
C14_Witness ==
    /\ code = 183 /\ NoEntry(code) /\ mapped.upper = 183
    /\ pc = "done" /\ ret = 2 /\ full /\ str_casekind = CaseUpper
    /\ log[1].how = "copy"
    /\ Stored(ret) = <<194, 183>>
\* ---------------------------------------------------------------- C15
\* what a binary search of the whole table returns for c
SearchOf(c) == case_map_search(c, 0, Len(case_map) - 1)

\* C15: for every codepoint from 0 to 127 the entry find_case_map returns
\* through its direct index is the entry a binary search of the table
\* returns: the entry at index c has codepoint c, as the assertion in the
\* fast path states.
C15_FastPathIsSearch ==
    /\ (code # -1 /\ code < 128) =>
           /\ mapped.map = SearchOf(code)
           /\ case_map[mapped.map + 1].codepoint = code
    /\ \A k \in DOMAIN log :
           (log[k].u1 < 128 /\ log[k].casemap # -1) =>
               /\ log[k].casemap = SearchOf(log[k].u1)
               /\ case_map[log[k].casemap + 1].codepoint = log[k].u1

\* the last codepoint of the fast path, looked up directly and by the
\* conversion loop
C15_Witness ==
    /\ code = 127 /\ mapped.map = 127 /\ SearchOf(127) = 127
    /\ pc = "done" /\ log[1].u1 = 127 /\ log[1].casemap = 127
\* ---------------------------------------------------------------- C16
\* the call converts the result of the caller's previous call
Reapplied == prev # <<>> /\ prev[1].again = "reapply"

\* C16: for a string of codepoints that have no special case, uppercasing
\* the result of uppercasing it gives that result again, and likewise for
\* lowercasing, with full mappings or without.
C16_Idempotent ==
    (Reapplied /\ pc = "done") =>
        /\ ret = prev[1].ret
        /\ dst = prev[1].dst

\* "\u00B5\u01C5\u03C3" uppercased to "\u039C\u01C4\u03A3" with full
\* mappings, and that result uppercased again: the capital sigma it now
\* holds has a special case whose condition holds
C16_Witness ==
    /\ Reapplied /\ pc = "done"
    /\ str_casekind = CaseUpper /\ full
    /\ text = <<924, 452, 931>>
    /\ log[3].asked /\ log[3].cond
    /\ Stored(ret) = Encode(text)
\* ---------------------------------------------------------------- C17
\* C17: the first offset initcap_wbnext returns is 0, for every source
\* string, the empty one included, with an explicit length and with a
\* NUL-terminated source; so Assert(boundary == 0) holds in every titlecase
\* call strtitle_builtin makes.
C17_FirstBoundaryZero ==
    /\ pulled # <<>> => pulled[1] = 0
    /\ pc # "abort"

\* ---------------------------------------------------------------- C18
\* the length of the source string in bytes
StrLen == IF srclen = SIZE_MAX THEN Len(src) - 1 ELSE srclen

\* C18: the offsets successive calls of initcap_wbnext return never
\* decrease and end at the byte length of the string: none exceeds it, and
\* once the string is exhausted, which it is after one call per codepoint,
\* every call returns that length, with an explicit length and with a
\* NUL-terminated source.
C18_BoundariesEndAtLength ==
    \A i \in DOMAIN pulled :
        /\ i > 1 => pulled[i - 1] <= pulled[i]
        /\ pulled[i] <= StrLen
        /\ i > Len(text) + 1 => pulled[i] = StrLen

\* the part of C18 that holds: the offsets never decrease, and with an
\* explicit length they end at that length
BoundariesMonotone ==
    \A i \in DOMAIN pulled :
        /\ i > 1 => pulled[i - 1] <= pulled[i]
        /\ srclen # SIZE_MAX =>
               /\ pulled[i] <= StrLen
               /\ i > Len(text) + 1 => pulled[i] = StrLen
\* ---------------------------------------------------------------- C19
\* what a thread's call returned when it ran alone, against what it returns
\* now
SameAsAlone(c) ==
    (c.prev # <<>> /\ c.prev[1].again = "alone" /\ c.pc = "done") =>
        /\ c.ret = c.prev[1].ret
        /\ c.dst = c.prev[1].dst

\* C19: however the steps of two convert_case calls that own their source,
\* destination and WordBoundaryState interleave, a call returns the length
\* and writes the bytes it returns and writes when it runs alone; the calls
\* share only the case map table and the special cases, which no step
\* writes.
C19_InterleavingIndependent ==
    /\ SameAsAlone(Suspended)
    /\ other # <<>> => SameAsAlone(other)

\* both calls done, each after steps of the other: the titlecasing of "a a"
\* that ran alone before, and a lowercasing of a final sigma
C19_Witness ==
    /\ other # <<>> /\ other.pc = "done" /\ pc = "done"
    /\ interleaved
    /\ prev # <<>> /\ prev[1].again = "alone"
    /\ str_casekind = CaseTitle /\ text = <<97, 32>>
    /\ other.str_casekind = CaseLower /\ other.text = <<97, 931>>
    /\ ret = prev[1].ret /\ ret = 2 /\ dst = prev[1].dst
    /\ other.ret = 3
\* ---------------------------------------------------------------- C20
\* C20: titlecasing is a machine of two states, adjusting and lowering,
\* that starts adjusting. An iteration whose source offset is the pending
\* boundary enters adjusting and pulls exactly one more boundary; no other
\* iteration pulls or enters adjusting. An adjusting iteration leaves for
\* lowering exactly when its codepoint qualifies (any codepoint without
\* adjust_to_cased, a Cased one with it), mapping it with the title or upper
\* kind. A lowering iteration maps its codepoint with the lower kind and
\* stays lowering.
C20_TitleStateMachine ==
    [][(str_casekind = CaseTitle /\ pc = "loop") =>
          /\ log = <<>> => adjusting
          /\ Len(log') = Len(log) + 1 =>
                LET r == log'[Len(log')]
                    qualifies == ~adjust_to_cased \/ pg_u_prop_cased(r.u1)
                IN  /\ srcoff = boundary =>
                           /\ r.adjusting
                           /\ Len(pulled') = Len(pulled) + 1
                           /\ boundary' = pulled'[Len(pulled')]
                    /\ srcoff # boundary =>
                           /\ r.adjusting = adjusting
                           /\ pulled' = pulled
                           /\ boundary' = boundary
                    /\ r.adjusting =>
                           /\ adjusting' = ~qualifies
                           /\ qualifies =>
                                  r.kind = (IF real_titlecase THEN CaseTitle
                                            ELSE CaseUpper)
                           /\ ~qualifies => r.how = "copy"
                    /\ ~r.adjusting =>
                           /\ ~adjusting'
                           /\ r.kind = CaseLower
                           /\ r.how # "copy" \/ NoEntry(r.u1)]_vars

\* a word of two letters, then a codepoint that is not Cased at the next
\* boundary: adjusting, lowering, adjusting again and staying so
C20_Witness ==
    /\ str_casekind = CaseTitle /\ adjust_to_cased
    /\ Len(log) = 3 /\ Len(pulled) = 3
    /\ log[1].pulled /\ log[1].adjusting /\ log[1].kind # CaseLower
    /\ ~log[2].pulled /\ ~log[2].adjusting /\ log[2].kind = CaseLower
    /\ log[3].pulled /\ log[3].adjusting /\ log[3].how = "copy"
    /\ adjusting
\* ---------------------------------------------------------------- C21
\* wbnext has returned offset off as a word boundary
IsBoundary(off) == \E i \in DOMAIN pulled : pulled[i] = off

\* codepoint k follows a word boundary with no Cased codepoint in between
NoCasedSinceBoundary(k) ==
    \E j \in 1..k :
        /\ IsBoundary(log[j].off)
        /\ \A m \in j..(k - 1) : ~pg_u_prop_cased(text[m])

\* the source bytes of the codepoint iteration k converted
SourceBytes(k) ==
    SubSeq(src, log[k].off + 1, log[k].off + unicode_utf8len(log[k].u1))

\* C21: titlecasing with adjust_to_cased, a codepoint between a word
\* boundary and the first Cased codepoint after it is copied byte for byte
\* without a look at the case table, and that first Cased codepoint is
\* mapped with the title (or upper) kind; without adjust_to_cased the
\* codepoint at each boundary is mapped with that kind, Cased or not.
C21_AdjustToCased ==
    str_casekind = CaseTitle =>
        \A k \in DOMAIN log :
            LET r == log[k]
                titlekind == IF real_titlecase THEN CaseTitle ELSE CaseUpper
            IN  /\ (adjust_to_cased /\ NoCasedSinceBoundary(k)) =>
                       IF pg_u_prop_cased(r.u1)
                       THEN /\ r.kind = titlekind
                            /\ r.casemap = find_case_map(r.u1)
                            /\ r.how # "copy"
                       ELSE /\ r.casemap = -1
                            /\ ~r.asked
                            /\ r.how = "copy"
                            /\ r.bytes = SourceBytes(k)
                            /\ StoredAt(k, SourceBytes(k))
                /\ (~adjust_to_cased /\ IsBoundary(r.off)) =>
                       /\ r.kind = titlekind
                       /\ r.casemap = find_case_map(r.u1)
                       /\ r.bytes = unicode_to_utf8(
                              case_map[r.casemap + 1].simplemap[titlekind])

\* " 1a" with adjust_to_cased: the space and the digit, each at a boundary,
\* are copied, and the letter after them is uppercased
C21_Witness ==
    /\ pc = "done" /\ ret < dstsize
    /\ str_casekind = CaseTitle /\ adjust_to_cased /\ ~real_titlecase
    /\ text = <<32, 49, 97>>
    /\ pulled[1] = 0 /\ pulled[2] = 1
    /\ log[1].casemap = -1 /\ log[2].casemap = -1
    /\ log[3].kind = CaseUpper
    /\ Stored(ret) = <<32, 49, 65>>
\* ---------------------------------------------------------------- C22
\* no word boundary lies after codepoint j up to and including codepoint k
SameWord(j, k) == \A m \in (j + 1)..k : ~IsBoundary(log[m].off)

\* codepoint k is mapped: it is not one that adjust_to_cased passes over
Mapped(k) ==
    ~(adjust_to_cased /\ NoCasedSinceBoundary(k)
          /\ ~pg_u_prop_cased(log[k].u1))

\* C22: titlecasing, between two consecutive boundaries at most one
\* codepoint is mapped with a kind other than lower: the first codepoint
\* mapped, with the title kind under real_titlecase and the upper kind
\* without it; every codepoint mapped after it in the word has the lower
\* kind.
C22_OneStartPerWord ==
    str_casekind = CaseTitle =>
        \A k \in DOMAIN log :
            Mapped(k) =>
                log[k].kind =
                    (IF \E j \in 1..(k - 1) : SameWord(j, k) /\ Mapped(j)
                     THEN CaseLower
                     ELSE IF real_titlecase THEN CaseTitle
                     ELSE CaseUpper)

\* "\u01C6\u01C6 " with real_titlecase: U+01C5 then U+01C6 stored, the
\* space starting a word of its own
C22_Witness ==
    /\ pc = "done" /\ ret < dstsize
    /\ str_casekind = CaseTitle /\ real_titlecase /\ ~adjust_to_cased
    /\ text = <<454, 454, 32>>
    /\ log[1].kind = CaseTitle /\ log[2].kind = CaseLower
    /\ log[3].kind = CaseTitle
    /\ Stored(ret) = Encode(<<453, 454, 32>>)
\* ---------------------------------------------------------------- C23
\* the table is sorted ascending by codepoint without duplicate keys, and
\* the entries of 0 .. 127 sit at their own index
TableWellFormed ==
    /\ \A i \in 1..(Len(case_map) - 1) :
           case_map[i].codepoint < case_map[i + 1].codepoint
    /\ \A c \in 0..127 : case_map[c + 1].codepoint = c

\* C23: on a table sorted ascending by codepoint without duplicate keys,
\* with the entries of 0 .. 127 at their own index, find_case_map returns
\* the entry whose codepoint is c when there is one and no entry otherwise,
\* for every codepoint c; its search loop ends, after no more iterations
\* than the table has entries.
C23_FindCaseMap ==
    (TableWellFormed /\ code # -1) =>
        /\ IF NoEntry(code) THEN mapped.map = -1
           ELSE /\ mapped.map \in 0..(Len(case_map) - 1)
                /\ case_map[mapped.map + 1].codepoint = code
        /\ mapped.steps <= Len(case_map)

\* U+0080, the first codepoint the loop searches for: below every key
\* above the fast path, not found
C23_Witness ==
    /\ TableWellFormed
    /\ code = 128 /\ NoEntry(128)
    /\ mapped.map = -1 /\ mapped.steps > 0
\* ---------------------------------------------------------------- C24
\* the byte offsets of the codepoints of t from the k-th on that begin the
\* string or whose alphanumeric classification differs from that of the
\* codepoint before, ascending
RECURSIVE TransitionsFrom(_, _, _)
TransitionsFrom(t, k, posix) ==
    IF k > Len(t) THEN <<>>
    ELSE (IF k = 1 \/ pg_u_isalnum(t[k], posix)
                         # pg_u_isalnum(t[k - 1], posix)
          THEN <<Len(Encode(SubSeq(t, 1, k - 1)))>>
          ELSE <<>>) \o TransitionsFrom(t, k + 1, posix)

\* C24: before its final value initcap_wbnext returns offset 0, when the
\* string is not empty, and the byte offset of every codepoint whose
\* alphanumeric classification differs from that of the codepoint before
\* it, each once and in increasing order, and no other offset; every later
\* call returns the final value.
C24_BoundariesAreTransitions ==
    LET T == TransitionsFrom(UpToNul(text), 1, wbstate.posix)
    IN  \A i \in DOMAIN pulled :
            pulled[i] = (IF i <= Len(T) THEN T[i] ELSE wbstate.len)

\* "a \u03A3": the three classification changes at 0, 1 and 2, then the
\* final value
C24_Witness ==
    /\ text = <<97, 32, 931>>
    /\ Len(pulled) = 5
    /\ pulled[1] = 0 /\ pulled[2] = 1 /\ pulled[3] = 2
    /\ pulled[4] = wbstate.len /\ pulled[5] = wbstate.len
\* ---------------------------------------------------------------- C25
\* the byte offset at which the k-th codepoint of the source starts
StartOf(k) == Len(Encode(SubSeq(text, 1, k - 1)))

\* C25: convert_case ends on every well-formed source. Iteration k converts
\* the k-th codepoint of the source, found at its first byte, and moves the
\* source offset on by the length of that codepoint, not of what it
\* emitted; the loop never makes more iterations than the string has
\* codepoints and is left after exactly that many.
C25_OneIterationPerCodepoint ==
    /\ Len(log) <= Len(UpToNul(text))
    /\ pc \in {"loop", "done"} => srcoff = StartOf(Len(log) + 1)
    /\ \A k \in DOMAIN log :
           /\ log[k].u1 = text[k]
           /\ log[k].off = StartOf(k)
           /\ StartOf(k + 1) - log[k].off = unicode_utf8len(text[k])
           /\ StartOf(k + 1) - log[k].off >= 1
    /\ pc = "done" => Len(log) = Len(UpToNul(text))

\* "\u0130\u0390" lowercased then done: two iterations over four source
\* bytes, the first emitting three bytes for a codepoint of two
C25_Witness ==
    /\ pc = "done" /\ full /\ str_casekind = CaseLower
    /\ text = <<304, 912>>
    /\ Len(log) = 2 /\ srcoff = 4
    /\ log[1].len = 3 /\ log[2].off = 2
\* ---------------------------------------------------------------- C26
sign(n) == IF n < 0 THEN -1 ELSE IF n > 0 THEN 1 ELSE 0

\* strcmp of two byte strings without NUL: -1, 0 or 1; a proper prefix
\* sorts first
RECURSIVE bytewise(_, _)
bytewise(a, b) ==
    IF a = <<>> THEN (IF b = <<>> THEN 0 ELSE -1)
    ELSE IF b = <<>> THEN 1
    ELSE IF Head(a) # Head(b) THEN sign(Head(a) - Head(b))
    ELSE bytewise(Tail(a), Tail(b))

\* the complete folded form of an argument
Folded1 == unicode_strfold(coll.arg1, 0, coll.len1, coll.full)
Folded2 == unicode_strfold(coll.arg2, 0, coll.len2, coll.full)

\* C26: strncoll_builtin_ci returns a value with the sign of the byte-wise
\* comparison of the complete folded forms of its arguments, a proper
\* prefix sorting first and 0 meaning identical folded forms, also when the
\* arguments fold to different numbers of bytes per codepoint; at the top
\* of every iteration at most one fold buffer holds leftover bytes, and the
\* loop makes no more iterations than the two arguments have bytes.
C26_FoldedComparison ==
    coll # <<>> =>
        /\ coll.pc = "done" =>
               /\ sign(coll.result) = bytewise(Folded1, Folded2)
               /\ coll.result = 0 <=> Folded1 = Folded2
        /\ coll.pc = "loop" => Len(coll.buf1) = 0 \/ Len(coll.buf2) = 0
        /\ Len(coll.buf1) <= UNICODE_CASEMAP_BUFSZ
        /\ Len(coll.buf2) <= UNICODE_CASEMAP_BUFSZ
        /\ coll.iterations <= coll.len1 + coll.len2

\* "ß" against "ss" with full mappings: equal after two iterations,
\* the second comparing the byte left over from the first
C26_Witness ==
    /\ coll # <<>>
    /\ coll.pc = "done" /\ coll.full
    /\ coll.arg1 = <<195, 159, 97>> /\ coll.arg2 = <<115, 115, 97>>
    /\ coll.iterations = 2 /\ coll.result = 0
\* ---------------------------------------------------------------- C27
\* the library in slot i provides a collator of the locale with exactly
\* the requested version
ExactIn(i) ==
    /\ icu.requested_version # NULL
    /\ icu.table[i + 1] \in CollatorVersions
    /\ icu.table[i + 1] = icu.requested_version

\* slot j is scanned before slot i: the built-in library first, then
\* descending major version
ScannedBefore(j, i) == j # i /\ (j = Builtin \/ (i # Builtin /\ j > i))

Slots == 0..(ICU_LIB_TABLESIZE - 1)

DefaultSlot == icu.default_major - PG_MIN_ICU_MAJOR

Eligible(i) == i = Builtin => icu.include_builtin

Written ==
    IF pc = "done" /\ ret < dstsize THEN (DOMAIN dst) \ {ret} ELSE DOMAIN dst

\* C28: whatever dstsize is, the converted bytes in dst are the first n
\* bytes of the conversion output for some n that is the end of an output
\* codepoint: a codepoint is stored whole or not at all, nothing is stored
\* after a codepoint that was left out for lack of room, and nothing is
\* stored at or after dst[dstsize].
C28_WrittenIsPrefix ==
    pc \in {"loop", "done"} =>
        \E n \in 0..Len(Full) :
            /\ Written = 0..(n - 1)
            /\ \A i \in Written : dst[i] = Full[i + 1] /\ i < dstsize
            /\ n = Len(Full) \/ is_lead(Full[n + 1])

\* "İa" lowercased with full mappings into three bytes: i is stored,
\* U+0307 does not fit, and a, which would fit on its own, is not stored
C28_Witness ==
    /\ pc = "done" /\ dstsize = 3 /\ full /\ str_casekind = CaseLower
    /\ text = <<304, 97>>
    /\ ret = 4
    /\ Full = <<105, 204, 135, 97>>
    /\ DOMAIN dst = {0}
\* ---------------------------------------------------------------- C29
\* the callback honours the protocol: first 0, never decreasing, codepoint
\* starts only, the string length last
Honoured ==
    /\ "offsets" \in DOMAIN wbstate
    /\ wbstate.offsets[1] = 0

\* the callback yields every offset below the string length once
WithoutRepeats ==
    \A i \in 1..(Len(wbstate.offsets) - 1) :
        wbstate.offsets[i] < wbstate.offsets[i + 1]

\* every offset of the list inside the string started an iteration that
\* reset the state to adjusting and pulled the next boundary
AllReentered ==
    \A i \in DOMAIN wbstate.offsets :
        wbstate.offsets[i] < Len(Encode(text)) =>
            \E k \in DOMAIN log :
                /\ log[k].off = wbstate.offsets[i]
                /\ log[k].pulled /\ log[k].adjusting

\* every offset of the list was pulled, the string length last
PulledToEnd ==
    /\ \A i \in DOMAIN wbstate.offsets :
           \E j \in DOMAIN pulled : pulled[j] = wbstate.offsets[i]
    /\ pulled[Len(pulled)] = Len(Encode(text))

\* C29 as stated: with any callback that honours the protocol, repeated
\* offsets included, a finished titlecasing has reset to adjusting at every
\* boundary inside the string.
C29_NoBoundarySkippedAsStated ==
    (pc = "done" /\ Honoured) => AllReentered

\* C29, amended: with a callback that honours the protocol and yields no
\* offset twice before the string length, a finished titlecasing has reset
\* to adjusting at every boundary inside the string and has pulled every
\* boundary up to the string length.
C29_NoBoundarySkipped ==
    (pc = "done" /\ Honoured /\ WithoutRepeats) =>
        AllReentered /\ PulledToEnd

\* "a a" with boundaries 0, 1, 2, 3: all four pulled, and the iterations
\* at 1 and 2 start adjusting
C29_Witness ==
    /\ pc = "done" /\ Honoured /\ WithoutRepeats
    /\ text = <<97, 32, 97>>
    /\ wbstate.offsets = <<0, 1, 2, 3>>
    /\ pulled = <<0, 1, 2, 3>>
    /\ log[2].pulled /\ log[2].adjusting
    /\ log[3].pulled /\ log[3].adjusting
\* ---------------------------------------------------------------- C30
\* the n bytes stored at the beginning of d
BytesOf(d, n) == [i \in 1..n |-> d[i - 1]]

\* the string was converted whole, then its head, and now its tail
InParts == pc = "done" /\ Len(prev) = 2 /\ prev[2].again = "tail"

\* C30: lowercasing and uppercasing with simple mappings only is
\* context-free. Whatever the cut, the string converted whole comes out as
\* its head converted alone followed by its tail converted alone, as
\* computed and as stored, its length is the sum of theirs, and a codepoint
\* comes out the same in the three conversions.
C30_ConcatenationSplits ==
    (InParts /\ ~full) =>
        /\ prev[1].ret = prev[2].ret + ret
        /\ Concat(prev[1].log) = Concat(prev[2].log) \o Full
        /\ BytesOf(prev[1].dst, prev[1].ret)
               = BytesOf(prev[2].dst, prev[2].ret) \o BytesOf(dst, ret)
        /\ \A j \in DOMAIN prev[1].log :
               \A r \in {prev[2].log[k] : k \in DOMAIN prev[2].log}
                            \cup {log[k] : k \in DOMAIN log} :
                   r.u1 = prev[1].log[j].u1 =>
                       r.bytes = prev[1].log[j].bytes

\* "aΣa" lowercased with simple mappings: whole, then "aΣ", then "a";
\* the sigma is U+03C3 both times
C30_Witness ==
    /\ InParts /\ ~full /\ str_casekind = CaseLower
    /\ prev[1].text = <<97, 931, 97>>
    /\ prev[2].text = <<97, 931>>
    /\ text = <<97>>
    /\ prev[1].ret = 4 /\ prev[2].ret = 3 /\ ret = 1
    /\ BytesOf(prev[2].dst, 3) = <<97, 207, 131>>
====
